---- MODULE Spec2Model ----
(***************************************************************************)
(* Model of the shorts-maker core: the cut-point planner of                *)
(* ContentAnalyzer.get_optimal_cut_points with its two detectors, the      *)
(* layout arithmetic of MobileConverter.convert_to_mobile_format, the      *)
(* per-segment loop of MultiShortsAlgorithm.process_video, the task        *)
(* bookkeeping of VideoService / TaskManager around them, concurrent calls *)
(* of the shared VideoProcessor, and the upload route POST /process.       *)
(*                                                                         *)
(* Timestamps are seconds.  The planner only adds, subtracts and compares  *)
(* them, so they are modelled as integers on a coarse time grid.  Frame    *)
(* sizes are pixels; a scale factor is a decimal fraction num / den.       *)
(***************************************************************************)
EXTENDS Integers, Sequences, FiniteSets, TLC

(***************************************************************************)
(* Bounds of the model.                                                    *)
(***************************************************************************)
MaxDuration == 5      \* longest video, in grid units
MaxSegment == 3       \* largest max_duration
MaxScene == 2         \* longest scene_changes list
MaxSilence == 1       \* longest silence_pauses list

\* timestamps a detector may report for a video of length d: the grid
\* points of its timeline and one point past its end
Times(d) == 0..(d + 1)

SeqsUpTo(S, n) == UNION {[1..k -> S] : k \in 0..n}

\* the detectors return sorted(scene_times) / sorted(silence_times)
IsSorted(s) == \A i \in 1..Len(s) : \A j \in 1..Len(s) : i < j => s[i] <= s[j]

DetectorOutputs(d, n) == {s \in SeqsUpTo(Times(d), n) : IsSorted(s)}

Range(s) == {s[k] : k \in 1..Len(s)}

Abs(x) == IF x < 0 THEN -x ELSE x

SetMin(S) == CHOOSE m \in S : \A x \in S : m <= x

SetMax(S) == CHOOSE m \in S : \A x \in S : x <= m

RECURSIVE Sorted(_)
Sorted(S) == IF S = {} THEN <<>>
             ELSE LET m == SetMin(S) IN <<m>> \o Sorted(S \ {m})

\* sorted(list): ascending, repeated values kept
RECURSIVE SortedList(_)
SortedList(s) ==
    IF s = <<>> THEN <<>>
    ELSE LET m == SetMin(Range(s))
             k == CHOOSE i \in 1..Len(s) : s[i] = m /\ \A j \in 1..(i - 1) : s[j] # m
         IN <<m>> \o SortedList(SubSeq(s, 1, k - 1) \o SubSeq(s, k + 1, Len(s)))

(***************************************************************************)
(* detect_scene_changes / detect_silence_pauses.  run describes one ffmpeg *)
(* run: the timestamps its output carries (times) and whether an exception *)
(* was raised inside the try block (raised).                               *)
(***************************************************************************)
\* variant: the timestamps read so far are returned when an exception is raised
DetectorResultPartial(run) == SortedList(run.times)

DetectorResult(run) == IF run.raised THEN <<>> ELSE SortedList(run.times)

(***************************************************************************)
(* all_cuts = sorted(set(scene_changes + silence_pauses + [0, duration]))  *)
(***************************************************************************)
\* variant: the concatenation is neither de-duplicated nor sorted
AllCutsUnsorted(scene, silence, duration) ==
    scene \o silence \o <<0, duration>>

AllCuts(scene, silence, duration) ==
    Sorted(Range(scene \o silence \o <<0, duration>>))

(***************************************************************************)
(* The inner scan of the over-long branch: best_cut starts at target_end   *)
(* and is replaced by a potential_cut of all_cuts in (current_start,       *)
(* target_end] only if that one is strictly nearer to target_end.          *)
(***************************************************************************)
RECURSIVE ScanBest(_, _, _, _, _)
ScanBest(cuts, k, start, target_end, best) ==
    IF k > Len(cuts) THEN best
    ELSE LET potential_cut == cuts[k]
             better == /\ start < potential_cut
                       /\ potential_cut <= target_end
                       /\ Abs(potential_cut - target_end) < Abs(best - target_end)
         IN ScanBest(cuts, k + 1, start, target_end,
                     IF better THEN potential_cut ELSE best)

BestCut(cuts, start, max_d) ==
    ScanBest(cuts, 1, start, start + max_d, start + max_d)

(***************************************************************************)
(* Whether the stretch after the walk is appended as a last segment.       *)
(***************************************************************************)
\* variants: a strict comparison; no test at all
KeepTailStrict(duration, start, min_d) == duration - start > min_d

KeepTailAlways(duration, start, min_d) == TRUE

KeepTail(duration, start, min_d) == duration - start >= min_d

(***************************************************************************)
(* One iteration of the loop over all_cuts[1:].  st is the loop state:     *)
(* segments, current_start and, for each segment, the branch that emitted  *)
(* it ("cut" = in-range branch, "split" = over-long branch, "tail" = the   *)
(* segment appended after the loop).                                       *)
(***************************************************************************)
\* variant: the over-long branch forgets "current_start = best_cut"
WalkStepNoAdvance(st, cuts, cut_point, min_d, max_d) ==
    LET segment_duration == cut_point - st.current_start IN
    IF segment_duration < min_d THEN st
    ELSE IF segment_duration > max_d
    THEN LET best_cut == BestCut(cuts, st.current_start, max_d) IN
         [segments |-> Append(st.segments, <<st.current_start, best_cut>>),
          branches |-> Append(st.branches, "split"),
          current_start |-> st.current_start]
    ELSE [segments |-> Append(st.segments, <<st.current_start, cut_point>>),
          branches |-> Append(st.branches, "cut"),
          current_start |-> cut_point]

\* variant: the in-range branch excludes both of its boundaries
WalkStepExclusive(st, cuts, cut_point, min_d, max_d) ==
    LET segment_duration == cut_point - st.current_start IN
    IF segment_duration <= min_d THEN st
    ELSE IF segment_duration >= max_d
    THEN LET best_cut == BestCut(cuts, st.current_start, max_d) IN
         [segments |-> Append(st.segments, <<st.current_start, best_cut>>),
          branches |-> Append(st.branches, "split"),
          current_start |-> best_cut]
    ELSE [segments |-> Append(st.segments, <<st.current_start, cut_point>>),
          branches |-> Append(st.branches, "cut"),
          current_start |-> cut_point]

\* variant: candidates nearer than min_duration are not skipped
WalkStepNoSkip(st, cuts, cut_point, min_d, max_d) ==
    LET segment_duration == cut_point - st.current_start IN
    IF segment_duration <= 0 THEN st
    ELSE IF segment_duration > max_d
    THEN LET best_cut == BestCut(cuts, st.current_start, max_d) IN
         [segments |-> Append(st.segments, <<st.current_start, best_cut>>),
          branches |-> Append(st.branches, "split"),
          current_start |-> best_cut]
    ELSE [segments |-> Append(st.segments, <<st.current_start, cut_point>>),
          branches |-> Append(st.branches, "cut"),
          current_start |-> cut_point]

WalkStep(st, cuts, cut_point, min_d, max_d) ==
    LET segment_duration == cut_point - st.current_start IN
    IF segment_duration < min_d THEN st
    ELSE IF segment_duration > max_d
    THEN LET best_cut == BestCut(cuts, st.current_start, max_d) IN
         [segments |-> Append(st.segments, <<st.current_start, best_cut>>),
          branches |-> Append(st.branches, "split"),
          current_start |-> best_cut]
    ELSE [segments |-> Append(st.segments, <<st.current_start, cut_point>>),
          branches |-> Append(st.branches, "cut"),
          current_start |-> cut_point]

TailStep(st, duration, min_d) ==
    IF KeepTail(duration, st.current_start, min_d)
    THEN [segments |-> Append(st.segments, <<st.current_start, duration>>),
          branches |-> Append(st.branches, "tail"),
          current_start |-> st.current_start]
    ELSE st

WalkStart == [segments |-> <<>>, branches |-> <<>>, current_start |-> 0]

RECURSIVE Walk(_, _, _, _, _)
Walk(cuts, k, st, min_d, max_d) ==
    IF k > Len(cuts) THEN st
    ELSE Walk(cuts, k + 1, WalkStep(st, cuts, cuts[k], min_d, max_d), min_d, max_d)

(***************************************************************************)
(* get_optimal_cut_points as a function of what the collaborators return.  *)
(***************************************************************************)
Plan(duration, scene, silence, min_d, max_d) ==
    LET cuts == AllCuts(scene, silence, duration) IN
    TailStep(Walk(cuts, 2, WalkStart, min_d, max_d), duration, min_d).segments

(***************************************************************************)
(* State.                                                                  *)
(***************************************************************************)
VARIABLES
    duration,        \* clip.duration
    min_duration,    \* ContentAnalyzer.min_duration
    max_duration,    \* ContentAnalyzer.max_duration
    scene_changes,   \* result of detect_scene_changes
    silence_pauses,  \* result of detect_silence_pauses
    detector_runs,   \* what the two ffmpeg runs of the detectors did
    all_cuts,        \* sorted, de-duplicated candidates
    idx,             \* position of the loop in all_cuts (1-based)
    walk,            \* [segments, branches, current_start]
    pc,              \* planner: "idle", "walk", "done", "failed"
    tasks,           \* TaskManager.tasks: task_id -> task_data
    step,            \* position of the processing run of the task
    loop,            \* locals of the segment loop of process_video
    result,          \* dict returned by VideoProcessor.process_video
    mobile_scale_factor,  \* MobileConverter.mobile_scale_factor, as num / den
    original_width,  \* clip.w of the clip given to the converter
    original_height, \* clip.h
    layout,          \* the sizes and offsets computed by the conversion
    converted,       \* what convert_to_mobile_format returned
    upload_folder,   \* the files in settings.upload_path_obj: path -> content
    requests,        \* the POST /process requests and their background tasks
    instances,       \* the algorithm objects made by create_algorithm
    runs             \* the calls of VideoProcessor.process_video under way

planner_vars == <<duration, min_duration, max_duration, scene_changes,
                  silence_pauses, detector_runs, all_cuts, idx, walk, pc>>

service_vars == <<tasks, step, loop, result>>

mobile_vars == <<mobile_scale_factor, original_width, original_height, layout,
                 converted>>

upload_vars == <<upload_folder, requests>>

run_vars == <<instances, runs>>

front_vars == <<upload_folder, requests, instances, runs>>

vars == <<duration, min_duration, max_duration, scene_changes, silence_pauses,
          detector_runs, all_cuts, idx, walk, pc, tasks, step, loop, result,
          mobile_scale_factor, original_width, original_height, layout, converted,
          upload_folder, requests, instances, runs>>

inputs == <<duration, min_duration, max_duration, scene_changes, silence_pauses,
            detector_runs, all_cuts>>

segments == walk.segments
branches == walk.branches
current_start == walk.current_start

TaskId == "task_1"

\* attempts: what happened to each segment visited so far; files: the clips
\* on disk in video_output_folder, as [path, content]; folder: whether
\* video_output_folder, created before the loop, is still there
LoopStart == [i |-> 1, successful_segments |-> 0, result_files |-> <<>>,
              attempts |-> <<>>, files |-> {}, folder |-> TRUE]

NoResult == <<>>

\* a detector run that printed the timestamps times and raised nothing
Answered(times) == [raised |-> FALSE, times |-> times]

\* a decimal scale factor, kept as numerator and denominator
Decimal(n) == [num |-> n, den |-> 10000]

NoLayout == <<>>

\* no upload received and no call of the shared VideoProcessor under way
FrontIdle ==
    /\ upload_folder = <<>>
    /\ requests = <<>>
    /\ instances = <<>>
    /\ runs = <<>>

\* no conversion under way: a converter with the default mobile_scale_factor
MobileIdle ==
    /\ mobile_scale_factor = Decimal(12000)
    /\ original_width = 0
    /\ original_height = 0
    /\ layout = NoLayout
    /\ converted = "not_called"

ServiceIdle ==
    /\ tasks = <<>>
    /\ step = "idle"
    /\ loop = LoopStart
    /\ result = NoResult
    /\ MobileIdle
    /\ FrontIdle

(***************************************************************************)
(* The planner on its own: get_optimal_cut_points from the point where     *)
(* all_cuts has been built, one loop iteration per step.                   *)
(***************************************************************************)
PlannerInit ==
    /\ duration \in 1..MaxDuration
    /\ max_duration \in 2..MaxSegment
    /\ min_duration \in 1..(max_duration - 1)
    /\ scene_changes \in DetectorOutputs(duration, MaxScene)
    /\ silence_pauses \in DetectorOutputs(duration, MaxSilence)
    /\ detector_runs = [scene |-> Answered(scene_changes),
                        silence |-> Answered(silence_pauses)]
    /\ all_cuts = AllCuts(scene_changes, silence_pauses, duration)
    /\ idx = 2
    /\ walk = WalkStart
    /\ pc = "walk"
    /\ ServiceIdle

\* one iteration of "for i, cut_point in enumerate(all_cuts[1:], 1)"
WalkCut ==
    /\ pc = "walk"
    /\ idx <= Len(all_cuts)
    /\ walk' = WalkStep(walk, all_cuts, all_cuts[idx], min_duration, max_duration)
    /\ idx' = idx + 1
    /\ UNCHANGED <<front_vars, mobile_vars, inputs, pc, service_vars>>

\* the loop is exhausted:
\* "if duration - current_start >= self.min_duration: segments.append(...)"
AppendTail ==
    /\ pc = "walk"
    /\ idx > Len(all_cuts)
    /\ walk' = TailStep(walk, duration, min_duration)
    /\ pc' = "done"
    /\ UNCHANGED <<front_vars, mobile_vars, inputs, idx, service_vars>>

PlannerNext == WalkCut \/ AppendTail

SpecPlanner == PlannerInit /\ [][PlannerNext]_vars

(***************************************************************************)
(* get_optimal_cut_points as a whole, with the default limits of           *)
(* ContentAnalyzer and timestamps in seconds: reading the duration, the    *)
(* two detectors, building all_cuts, then the same loop.                   *)
(***************************************************************************)
DefaultMinDuration == 60

DefaultMaxDuration == 180

SampleDurations == {50, 100, 250, 400}

SampleTimes == {0, 50, 100, 250, 400, 450}

\* ffmpeg prints its timestamps in presentation order
DetectorRuns(n) ==
    {[raised |-> r, times |-> t] :
        r \in BOOLEAN, t \in {s \in SeqsUpTo(SampleTimes, n) : IsSorted(s)}}

AnalyzeInit ==
    /\ duration \in SampleDurations
    /\ min_duration = DefaultMinDuration
    /\ max_duration = DefaultMaxDuration
    /\ detector_runs \in [scene : DetectorRuns(MaxScene), silence : DetectorRuns(MaxSilence)]
    /\ scene_changes = <<>>
    /\ silence_pauses = <<>>
    /\ all_cuts = <<>>
    /\ idx = 0
    /\ walk = WalkStart
    /\ pc = "detect"
    /\ ServiceIdle

\* "except Exception" around VideoFileClip: "return []"
ReadDurationFails ==
    /\ pc = "detect"
    /\ pc' = "failed"
    /\ UNCHANGED <<front_vars, mobile_vars, inputs, idx, walk, service_vars>>

\* the two detector calls and "all_cuts = sorted(set(...))"
DetectCuts ==
    /\ pc = "detect"
    /\ scene_changes' = DetectorResult(detector_runs.scene)
    /\ silence_pauses' = DetectorResult(detector_runs.silence)
    /\ all_cuts' = AllCuts(scene_changes', silence_pauses', duration)
    /\ idx' = 2
    /\ pc' = "walk"
    /\ UNCHANGED <<front_vars, mobile_vars, duration, min_duration, max_duration, detector_runs, walk, service_vars>>

AnalyzeNext == ReadDurationFails \/ DetectCuts \/ WalkCut \/ AppendTail

SpecAnalyze == AnalyzeInit /\ [][AnalyzeNext]_vars

(***************************************************************************)
(* Task bookkeeping (TaskManager).                                         *)
(***************************************************************************)
NewTask == [status |-> "queued", progress |-> 0, result_files |-> <<>>,
            error_message |-> "none"]

\* variant: "if progress:" in place of "if progress is not None:"
UpdateTaskStatusTruthy(ts, task_id, upd) ==
    IF task_id \notin DOMAIN ts THEN ts
    ELSE [ts EXCEPT ![task_id] =
              [f \in DOMAIN ts[task_id] |->
                  IF f \in DOMAIN upd /\ (f = "progress" => upd[f] # 0)
                  THEN upd[f] ELSE ts[task_id][f]]]

\* "if X is not None: task_data[X] = X" for the fields named by upd;
\* a task_id that is not in self.tasks is ignored
UpdateTaskStatus(ts, task_id, upd) ==
    IF task_id \notin DOMAIN ts THEN ts
    ELSE [ts EXCEPT ![task_id] =
              [f \in DOMAIN ts[task_id] |->
                  IF f \in DOMAIN upd THEN upd[f] ELSE ts[task_id][f]]]

\* final_segment_path of segment i, and the download link built from it
FinalPath(task_id, i, seg) == [folder |-> task_id, part |-> i, secs |-> seg[2] - seg[1]]

\* temp_segment_path of the segment whose final path is path
TempPath(path) == [temp_of |-> path]

DownloadUrl(path) == [prefix |-> "/api/v1/download/", rel |-> path]

DownloadUrls(paths) == [k \in 1..Len(paths) |-> DownloadUrl(paths[k])]

(***************************************************************************)
(* One processing run of one uploaded video: VideoService around           *)
(* VideoProcessor.process_video around MultiShortsAlgorithm.process_video. *)
(***************************************************************************)
Init ==
    /\ duration = 0
    /\ min_duration = 0
    /\ max_duration = 0
    /\ scene_changes = <<>>
    /\ silence_pauses = <<>>
    /\ detector_runs = [scene |-> Answered(<<>>), silence |-> Answered(<<>>)]
    /\ all_cuts = <<>>
    /\ idx = 0
    /\ walk = WalkStart
    /\ pc = "idle"
    /\ ServiceIdle

\* longest uploaded video of a processing run
MaxTaskDuration == 4

\* POST /process: the request parameters and the uploaded video
CreateTask ==
    /\ step = "idle"
    /\ \E d \in 1..MaxTaskDuration, mx \in 2..MaxSegment :
         \E mn \in 1..(mx - 1) :
            /\ duration' = d
            /\ max_duration' = mx
            /\ min_duration' = mn
    /\ tasks' = [t \in {TaskId} |-> NewTask]
    /\ step' = "queued"
    /\ UNCHANGED <<front_vars, mobile_vars, scene_changes, silence_pauses, detector_runs, all_cuts, idx, walk,
                   pc, loop, result>>

\* first update of process_video_async / _process_video_sync
StartProcessing ==
    /\ step = "queued"
    /\ tasks' = UpdateTaskStatus(tasks, TaskId, [status |-> "processing", progress |-> 10])
    /\ step' = "started"
    /\ UNCHANGED <<front_vars, mobile_vars, planner_vars, loop, result>>

\* second update, after the output folder has been created
ReportProgress ==
    /\ step = "started"
    /\ tasks' = UpdateTaskStatus(tasks, TaskId, [progress |-> 30])
    /\ step' = "dispatched"
    /\ UNCHANGED <<front_vars, mobile_vars, planner_vars, loop, result>>

\* variant: the service has no "except Exception"; the run just ends
ServiceFaultUncaught ==
    /\ step \in {"started", "dispatched"}
    /\ step' = "end"
    /\ UNCHANGED <<front_vars, mobile_vars, planner_vars, tasks, loop, result>>

\* variant: something after the final update raises inside the try block
ServiceFaultAfterFinal ==
    /\ step \in {"started", "dispatched", "end"}
    /\ tasks' = UpdateTaskStatus(tasks, TaskId,
                    [status |-> "error", progress |-> 0, error_message |-> "unexpected"])
    /\ step' = "end"
    /\ UNCHANGED <<front_vars, mobile_vars, planner_vars, loop, result>>

\* "except Exception" of the service: mkdir or the executor raised
ServiceFault ==
    /\ step \in {"started", "dispatched"}
    /\ tasks' = UpdateTaskStatus(tasks, TaskId,
                    [status |-> "error", progress |-> 0, error_message |-> "unexpected"])
    /\ step' = "end"
    /\ UNCHANGED <<front_vars, mobile_vars, planner_vars, loop, result>>

\* VideoProcessor.process_video up to the call of the algorithm
Preflight ==
    /\ step = "dispatched"
    /\ \E outcome \in {"ok", "invalid_file", "no_ffmpeg", "exception"} :
          IF outcome = "ok"
          THEN step' = "analyze" /\ result' = result
          ELSE /\ result' = [success |-> FALSE, error |-> outcome]
               /\ step' = "finish"
    /\ UNCHANGED <<front_vars, mobile_vars, planner_vars, tasks, loop>>

\* get_optimal_cut_points: the duration cannot be read and [] is returned
AnalyzeFails ==
    /\ step = "analyze"
    /\ pc' = "failed"
    /\ step' = "planned"
    /\ UNCHANGED <<front_vars, mobile_vars, inputs, idx, walk, tasks, loop, result>>

\* get_optimal_cut_points: the detectors answer and the plan is computed;
\* only the returned segments outlive the call
AnalyzeVideo ==
    /\ step = "analyze"
    /\ \E sc \in DetectorOutputs(duration, MaxScene),
          si \in DetectorOutputs(duration, MaxSilence) :
          walk' = TailStep(Walk(AllCuts(sc, si, duration), 2, WalkStart,
                                min_duration, max_duration),
                           duration, min_duration)
    /\ pc' = "done"
    /\ step' = "planned"
    /\ UNCHANGED <<front_vars, mobile_vars, inputs, idx, tasks, loop, result>>

\* "if not segments: return {'success': False, 'error': ...}"
NoSegments ==
    /\ step = "planned"
    /\ segments = <<>>
    /\ result' = [success |-> FALSE, error |-> "no_segments",
                  segments_created |-> 0, result_files |-> <<>>]
    /\ step' = "finish"
    /\ UNCHANGED <<front_vars, mobile_vars, planner_vars, tasks, loop>>

BeginSegments ==
    /\ step = "planned"
    /\ segments # <<>>
    /\ loop' = LoopStart
    /\ step' = "segments"
    /\ UNCHANGED <<front_vars, mobile_vars, planner_vars, tasks, result>>

\* one iteration of "for i, (start, end) in enumerate(segments, 1)" that
\* reaches the end of the loop body.  outcome is
\*   "extract_failed": extract_segment caught CalledProcessError;
\*   "temp_missing":   it returned True but temp_segment_path does not exist;
\*   "mobile":         convert_to_mobile_format returned True;
\*   "original":       it returned False and the temporary clip was renamed
\*                     to final_segment_path.
\* The temporary clip is gone after "mobile" (unlink) and "original" (rename).
\* ffmpeg creates no directories: once the folder has been removed no clip
\* can be written, and a clip being written at that moment is missing.
ProcessSegment ==
    /\ step = "segments"
    /\ loop.i <= Len(segments)
    /\ \E outcome \in IF loop.folder
                      THEN {"extract_failed", "temp_missing", "mobile", "original"}
                      ELSE {"extract_failed", "temp_missing"} :
          LET final_segment_path == FinalPath(TaskId, loop.i, segments[loop.i]) IN
          IF outcome \in {"mobile", "original"}
          THEN loop' = [i |-> loop.i + 1,
                        folder |-> loop.folder,
                        successful_segments |-> loop.successful_segments + 1,
                        result_files |-> Append(loop.result_files, final_segment_path),
                        attempts |-> Append(loop.attempts, outcome),
                        files |-> loop.files \cup
                                    {[path |-> final_segment_path,
                                      content |-> IF outcome = "mobile" THEN "mobile"
                                                  ELSE "clip"]}]
          ELSE loop' = [loop EXCEPT !.i = loop.i + 1,
                                    !.attempts = Append(loop.attempts, outcome)]
    /\ UNCHANGED <<front_vars, mobile_vars, planner_vars, tasks, step, result>>

\* an exception inside the loop body reaches "except Exception" of
\* VideoProcessor.process_video.  cause is
\*   "extract_raised": subprocess.run of extract_segment raised something
\*                     other than CalledProcessError, which is all it catches;
\*   "rename_raised":  convert_to_mobile_format returned False after ffmpeg
\*                     had created final_segment_path, and Path.rename onto
\*                     an existing file raised FileExistsError (Windows).
SegmentException ==
    /\ step = "segments"
    /\ loop.i <= Len(segments)
    /\ \E cause \in IF loop.folder THEN {"extract_raised", "rename_raised"}
                    ELSE {"extract_raised"} :
          LET final_segment_path == FinalPath(TaskId, loop.i, segments[loop.i]) IN
          loop' = [loop EXCEPT
                     !.attempts = Append(loop.attempts, cause),
                     !.files = IF cause = "rename_raised"
                               THEN loop.files \cup
                                      {[path |-> TempPath(final_segment_path),
                                        content |-> "clip"],
                                       [path |-> final_segment_path,
                                        content |-> "partial"]}
                               ELSE loop.files]
    /\ result' = [success |-> FALSE, error |-> "exception"]
    /\ step' = "finish"
    /\ UNCHANGED <<front_vars, mobile_vars, planner_vars, tasks>>

\* variant: segments_created counts the segments visited
BuildResultCountsAttempts ==
    /\ step = "segments"
    /\ loop.i > Len(segments)
    /\ result' = [success |-> loop.successful_segments > 0,
                  segments_total |-> Len(segments),
                  segments_created |-> Len(loop.attempts),
                  result_files |-> loop.result_files]
    /\ step' = "finish"
    /\ UNCHANGED <<front_vars, mobile_vars, planner_vars, tasks, loop>>

\* the return of process_video after the loop
BuildResult ==
    /\ step = "segments"
    /\ loop.i > Len(segments)
    /\ result' = [success |-> loop.successful_segments > 0,
                  segments_total |-> Len(segments),
                  segments_created |-> loop.successful_segments,
                  result_files |-> loop.result_files]
    /\ step' = "finish"
    /\ UNCHANGED <<front_vars, mobile_vars, planner_vars, tasks, loop>>

\* "if result['success']: ... COMPLETED ... else: ... ERROR"
FinishTask ==
    /\ step = "finish"
    /\ IF result.success
       THEN tasks' = UpdateTaskStatus(tasks, TaskId,
                        [status |-> "completed", progress |-> 100,
                         result_files |->
                            IF "result_files" \in DOMAIN result
                            THEN DownloadUrls(result.result_files) ELSE <<>>])
       ELSE tasks' = UpdateTaskStatus(tasks, TaskId,
                        [status |-> "error", progress |-> 0,
                         error_message |->
                            IF "error" \in DOMAIN result THEN result.error ELSE "unknown"])
    /\ step' = "end"
    /\ UNCHANGED <<front_vars, mobile_vars, planner_vars, loop, result>>

\* DELETE /cleanup/{task_id}, at any moment of the run: the record is found,
\* cleanup_task_files deletes it from self.tasks, and the route removes the
\* task's output folder with everything in it
CleanupTask ==
    /\ TaskId \in DOMAIN tasks
    /\ tasks' = [t \in DOMAIN tasks \ {TaskId} |-> tasks[t]]
    /\ loop' = [loop EXCEPT !.files = {}, !.folder = FALSE]
    /\ UNCHANGED <<front_vars, mobile_vars, planner_vars, step, result>>

Next ==
    \/ CreateTask
    \/ StartProcessing
    \/ ReportProgress
    \/ ServiceFault
    \/ Preflight
    \/ AnalyzeFails
    \/ AnalyzeVideo
    \/ NoSegments
    \/ BeginSegments
    \/ ProcessSegment
    \/ SegmentException
    \/ BuildResult
    \/ FinishTask
    \/ CleanupTask

Spec == Init /\ [][Next]_vars

\* The steps of _process_video_sync (and of process_video_async) in program
\* order.  The function is run to its end by the worker that picked the
\* background task up: from any point of it, the next statement is executed.
ProcessingRun ==
    \/ StartProcessing
    \/ ReportProgress
    \/ Preflight
    \/ AnalyzeFails
    \/ AnalyzeVideo
    \/ NoSegments
    \/ BeginSegments
    \/ ProcessSegment
    \/ BuildResult
    \/ FinishTask

SpecFair == Init /\ [][Next]_vars /\ WF_vars(ProcessingRun)

(***************************************************************************)
(* Arithmetic of convert_to_mobile_format.  The sizes are computed as      *)
(* int(a * (b / c)) on IEEE doubles: the quotient b / c is rounded to 53   *)
(* significant bits, the product is rounded again, and int() drops the     *)
(* fraction.  For the small positive integers of the model the result is   *)
(* floor(a * b / c), except that it is one less when a * b / c is an       *)
(* integer N, the quotient was rounded down, and the product then falls    *)
(* nearer to the double below N than to N.                                 *)
(***************************************************************************)
RECURSIVE Pow2(_)
Pow2(n) == IF n <= 0 THEN 1 ELSE 2 * Pow2(n - 1)

\* floor(log2(n)) for n >= 1
RECURSIVE FloorLog2(_)
FloorLog2(n) == IF n < 2 THEN 0 ELSE 1 + FloorLog2(n \div 2)

\* the binary exponent of b / c: the e with 2^e <= b / c < 2^(e + 1)
RECURSIVE UpExponent(_, _, _)
UpExponent(b, c, e) == IF 2 * c <= b THEN UpExponent(b, 2 * c, e + 1) ELSE e

RECURSIVE DownExponent(_, _, _)
DownExponent(b, c, e) == IF b >= c THEN e ELSE DownExponent(2 * b, c, e - 1)

BinaryExponent(b, c) ==
    IF b >= c THEN UpExponent(b, c, 0) ELSE DownExponent(2 * b, c, -1)

\* (r * 2^n) mod c, the remainder left when b / c is cut after n more bits
RECURSIVE RemainderAfter(_, _, _)
RemainderAfter(r, c, n) ==
    IF n <= 0 THEN r ELSE RemainderAfter((2 * r) % c, c, n - 1)

\* whether the double a * (b / c) is below the integer N = a * b / c
ProductFallsShort(a, b, c, N) ==
    LET e == BinaryExponent(b, c)
        R == RemainderAfter(b % c, c, 52 - e)
        k == FloorLog2(N)
        half_gap == IF N = Pow2(k) THEN c * Pow2(k - e) ELSE c * Pow2(k - e + 1)
    IN /\ 2 * R < c
       /\ 4 * a * R > half_gap

\* variant: exact arithmetic, int(a * b / c) without intermediate rounding
IntOfProductExact(a, b, c) == (a * b) \div c

\* int(a * (b / c))
IntOfProduct(a, b, c) ==
    LET N == (a * b) \div c IN
    IF (a * b) % c = 0 /\ ProductFallsShort(a, b, c, N) THEN N - 1 ELSE N

\* variant: "/" with truncation toward zero in place of "//"
HalfOfTruncated(x) == IF x < 0 THEN -((-x) \div 2) ELSE x \div 2

\* x // 2
HalfOf(x) == x \div 2

(***************************************************************************)
(* convert_to_mobile_format: the sizes and offsets of the filter graph.    *)
(***************************************************************************)
target_width == 1080

target_height == 1920

\* variant: the background is scaled to the canvas width, not its height
BgScaleWidthToFit(w, h) == target_width

BgScaleWidth(w, h) == IntOfProduct(w, target_height, h)

\* variant: the foreground is scaled to the canvas width whatever the factor
MainScaleWidthUnscaled(sf) == target_width

MainScaleWidth(sf) == IntOfProduct(target_width, sf.num, sf.den)

MainScaleHeight(w, h, sf) == IntOfProduct(h, MainScaleWidth(sf), w)

\* variant: the crop offset is bg_x itself
CropXSigned(bg_x) == bg_x

\* "{abs(bg_x) if bg_x < 0 else 0}" of the crop filter
CropX(bg_x) == IF bg_x < 0 THEN Abs(bg_x) ELSE 0

LayoutPlan(w, h, sf) ==
    LET main_scale_width == MainScaleWidth(sf)
        main_scale_height == MainScaleHeight(w, h, sf)
        bg_scale_width == BgScaleWidth(w, h)
        bg_x == HalfOf(target_width - bg_scale_width)
    IN [main_scale_width |-> main_scale_width,
        main_scale_height |-> main_scale_height,
        main_x |-> HalfOf(target_width - main_scale_width),
        main_y |-> HalfOf(target_height - main_scale_height),
        bg_scale_height |-> target_height,
        bg_scale_width |-> bg_scale_width,
        bg_x |-> bg_x,
        crop_x |-> CropX(bg_x)]

(***************************************************************************)
(* One MobileConverter and one call of convert_to_mobile_format.           *)
(***************************************************************************)
MaxSideSteps == 16    \* largest frame side, in steps of 120 pixels

\* frame sides of the clips: a grid, and two sides off the grid
SourceSides == {120 * k : k \in 1..MaxSideSteps} \cup {608, 704}

\* ProcessingRequest: mobile_scale_factor is between 1.0 and 2.0
ScaleFactors ==
    {Decimal(n) : n \in {10000, 10005, 10010, 11500, 12000, 12010, 15000, 20000}}

MobileInit ==
    /\ mobile_scale_factor \in ScaleFactors
    /\ original_width \in SourceSides
    /\ original_height \in SourceSides
    /\ layout = NoLayout
    /\ converted = "not_called"
    /\ duration = 0
    /\ min_duration = 0
    /\ max_duration = 0
    /\ scene_changes = <<>>
    /\ silence_pauses = <<>>
    /\ detector_runs = [scene |-> Answered(<<>>), silence |-> Answered(<<>>)]
    /\ all_cuts = <<>>
    /\ idx = 0
    /\ walk = WalkStart
    /\ pc = "idle"
    /\ tasks = <<>>
    /\ step = "idle"
    /\ loop = LoopStart
    /\ result = NoResult
    /\ FrontIdle

\* VideoFileClip raises: "except Exception: return False"
ClipUnreadable ==
    /\ converted = "not_called"
    /\ converted' = "False"
    /\ UNCHANGED <<front_vars, planner_vars, service_vars, mobile_scale_factor, original_width,
                   original_height, layout>>

\* the sizes are computed and ffmpeg is run: True when its returncode is 0,
\* False when it is not or when subprocess.run raises
ConvertToMobileFormat ==
    /\ converted = "not_called"
    /\ layout' = LayoutPlan(original_width, original_height, mobile_scale_factor)
    /\ \E returned \in {"True", "False"} : converted' = returned
    /\ UNCHANGED <<front_vars, planner_vars, service_vars, mobile_scale_factor, original_width,
                   original_height>>

MobileNext == ClipUnreadable \/ ConvertToMobileFormat

SpecMobile == MobileInit /\ [][MobileNext]_vars

(***************************************************************************)
(* Two calls of VideoProcessor.process_video on the one VideoProcessor of  *)
(* the service, for two videos, interleaved at will.  Each call creates    *)
(* its own MultiShortsAlgorithm and keeps it in the local "processor";     *)
(* the algorithm's analyzer and converter get their limits from it.        *)
(***************************************************************************)
Runs == {1, 2}

MaxRunDuration == 3

\* algorithm_params of a call: min_duration, max_duration, mobile_scale_factor
RunParams ==
    {[min_duration |-> 1, max_duration |-> 2, mobile_scale_factor |-> Decimal(12000)],
     [min_duration |-> 2, max_duration |-> 3, mobile_scale_factor |-> Decimal(15000)]}

\* a video: what the clip and the detectors report about it
RunVideos ==
    {[duration |-> d, scene_changes |-> sc, silence_pauses |-> <<>>,
      width |-> wh[1], height |-> wh[2]] :
        d \in 1..MaxRunDuration, sc \in {<<>>, <<1>>},
        wh \in {<<1920, 1080>>, <<720, 1440>>}}

\* MultiShortsAlgorithm.__init__: the components and what they are given
NewAlgorithm(params) ==
    [content_analyzer |-> [min_duration |-> params.min_duration,
                           max_duration |-> params.max_duration],
     mobile_converter |-> [mobile_scale_factor |-> params.mobile_scale_factor]]

\* process_video(video_path, output_folder, algorithm, **algorithm_params)
\* is called
CallProcessVideo(r) ==
    /\ r \notin DOMAIN runs
    /\ \E p \in RunParams, v \in RunVideos :
          runs' = runs @@ (r :> [at |-> "called", params |-> p, video |-> v,
                                 processor |-> 0, segments |-> <<>>,
                                 layout |-> NoLayout])
    /\ UNCHANGED <<upload_vars, instances, mobile_vars, planner_vars, service_vars>>

\* variant: the VideoProcessor keeps the one algorithm object it made last
CreateAlgorithmShared(r) ==
    /\ r \in DOMAIN runs
    /\ runs[r].at = "called"
    /\ instances' = <<NewAlgorithm(runs[r].params)>>
    /\ runs' = [runs EXCEPT ![r].processor = 1, ![r].at = "created"]
    /\ UNCHANGED <<upload_vars, mobile_vars, planner_vars, service_vars>>

\* "processor = self.create_algorithm(algorithm, **algorithm_params)":
\* a new object at every call
CreateAlgorithm(r) ==
    /\ r \in DOMAIN runs
    /\ runs[r].at = "called"
    /\ instances' = Append(instances, NewAlgorithm(runs[r].params))
    /\ runs' = [runs EXCEPT ![r].processor = Len(instances) + 1, ![r].at = "created"]
    /\ UNCHANGED <<upload_vars, mobile_vars, planner_vars, service_vars>>

\* "segments = self.content_analyzer.get_optimal_cut_points(video_path)"
PlanSegments(r) ==
    /\ r \in DOMAIN runs
    /\ runs[r].at = "created"
    /\ LET analyzer == instances[runs[r].processor].content_analyzer
           video == runs[r].video
       IN runs' = [runs EXCEPT
                     ![r].segments = Plan(video.duration, video.scene_changes,
                                          video.silence_pauses,
                                          analyzer.min_duration, analyzer.max_duration),
                     ![r].at = "planned"]
    /\ UNCHANGED <<upload_vars, instances, mobile_vars, planner_vars, service_vars>>

\* "if not segments: return {...}"
ReturnNoSegments(r) ==
    /\ r \in DOMAIN runs
    /\ runs[r].at = "planned"
    /\ runs[r].segments = <<>>
    /\ runs' = [runs EXCEPT ![r].at = "returned"]
    /\ UNCHANGED <<upload_vars, instances, mobile_vars, planner_vars, service_vars>>

\* the loop over the segments: every clip has the frame size of the video
\* and goes through self.mobile_converter.convert_to_mobile_format
ConvertSegments(r) ==
    /\ r \in DOMAIN runs
    /\ runs[r].at = "planned"
    /\ runs[r].segments # <<>>
    /\ LET converter == instances[runs[r].processor].mobile_converter
           video == runs[r].video
       IN runs' = [runs EXCEPT
                     ![r].layout = LayoutPlan(video.width, video.height,
                                              converter.mobile_scale_factor),
                     ![r].at = "returned"]
    /\ UNCHANGED <<upload_vars, instances, mobile_vars, planner_vars, service_vars>>

RunNext ==
    \E r \in Runs :
        \/ CallProcessVideo(r)
        \/ CreateAlgorithm(r)
        \/ PlanSegments(r)
        \/ ReturnNoSegments(r)
        \/ ConvertSegments(r)

SpecRuns == Init /\ [][RunNext]_vars

(***************************************************************************)
(* POST /api/v1/process for two uploads, and the background tasks that     *)
(* read the stored files.  The route is a coroutine: between creating the  *)
(* task, opening the file and writing it, the other request may run.       *)
(***************************************************************************)
Uploaders == {1, 2}

Filenames == {"clip.mp4", "talk.mp4"}

\* how many times a background task reads its input in the model
MaxReads == 2

\* "settings.upload_path_obj / file.filename"
UploadPath(filename) == [folder |-> "uploads", name |-> filename]

\* the bytes sent by uploader u
ContentOf(u) == [video_of |-> u]

\* a file opened with 'wb' and not written yet
Truncated == [video_of |-> 0]

\* f"task_{int(time.time())}_{uuid.uuid4().hex[:8]}": one per call
TaskIdOf(u) == [task |-> u]

\* what opening path for reading gives
ReadFile(folder, path) == folder[path]

\* validate_file, create_processing_task and upload_path
CreateProcessingTask(u) ==
    /\ u \notin DOMAIN requests
    /\ \E filename \in Filenames :
          requests' = requests @@
              (u :> [at |-> "created", filename |-> filename,
                     task_id |-> TaskIdOf(u),
                     upload_path |-> UploadPath(filename), seen |-> <<>>])
    /\ tasks' = tasks @@ (TaskIdOf(u) :> NewTask)
    /\ UNCHANGED <<upload_folder, run_vars, mobile_vars, planner_vars, step, loop, result>>

\* "async with aiofiles.open(upload_path, 'wb') as f": the file is created
\* or cut to length 0
OpenUpload(u) ==
    /\ u \in DOMAIN requests
    /\ requests[u].at = "created"
    /\ upload_folder' = (requests[u].upload_path :> Truncated) @@ upload_folder
    /\ requests' = [requests EXCEPT ![u].at = "opened"]
    /\ UNCHANGED <<run_vars, mobile_vars, planner_vars, service_vars>>

\* "await f.write(content)", then background_tasks.add_task(...)
WriteUpload(u) ==
    /\ u \in DOMAIN requests
    /\ requests[u].at = "opened"
    /\ upload_folder' = (requests[u].upload_path :> ContentOf(u)) @@ upload_folder
    /\ requests' = [requests EXCEPT ![u].at = "queued"]
    /\ UNCHANGED <<run_vars, mobile_vars, planner_vars, service_vars>>

\* start_processing: the first update of the run
BeginProcessing(u) ==
    /\ u \in DOMAIN requests
    /\ requests[u].at = "queued"
    /\ tasks' = UpdateTaskStatus(tasks, requests[u].task_id,
                                 [status |-> "processing", progress |-> 10])
    /\ requests' = [requests EXCEPT ![u].at = "processing"]
    /\ UNCHANGED <<upload_folder, run_vars, mobile_vars, planner_vars, step, loop, result>>

\* the run opens video_path: validate_video_file, VideoFileClip, ffmpeg -i
ReadInput(u) ==
    /\ u \in DOMAIN requests
    /\ requests[u].at = "processing"
    /\ Len(requests[u].seen) < MaxReads
    /\ requests' = [requests EXCEPT
                      ![u].seen = Append(@, ReadFile(upload_folder, requests[u].upload_path))]
    /\ UNCHANGED <<upload_folder, tasks, run_vars, mobile_vars, planner_vars, step, loop, result>>

\* the final update of the run
EndProcessing(u) ==
    /\ u \in DOMAIN requests
    /\ requests[u].at = "processing"
    /\ \E upd \in {[status |-> "completed", progress |-> 100,
                    result_files |-> <<DownloadUrl(requests[u].task_id)>>],
                   [status |-> "error", progress |-> 0,
                    error_message |-> "failed"]} :
          tasks' = UpdateTaskStatus(tasks, requests[u].task_id, upd)
    /\ requests' = [requests EXCEPT ![u].at = "done"]
    /\ UNCHANGED <<upload_folder, run_vars, mobile_vars, planner_vars, step, loop, result>>

UploadNext ==
    \E u \in Uploaders :
        \/ CreateProcessingTask(u)
        \/ OpenUpload(u)
        \/ WriteUpload(u)
        \/ BeginProcessing(u)
        \/ ReadInput(u)
        \/ EndProcessing(u)

SpecUpload == Init /\ [][UploadNext]_vars

(***************************************************************************)
(* Vocabulary of the planner claims.                                       *)
(***************************************************************************)
SegStart(k) == segments[k][1]
SegEnd(k) == segments[k][2]
SegLen(k) == segments[k][2] - segments[k][1]
SegIdx == 1..Len(segments)

\* every detector timestamp lies on the video's timeline [0, duration]
InTimeline ==
    \A t \in Range(scene_changes) \cup Range(silence_pauses) : 0 <= t /\ t <= duration

CutSet == Range(scene_changes) \cup Range(silence_pauses) \cup {0, duration}

Boundaries == {segments[k][1] : k \in SegIdx} \cup {segments[k][2] : k \in SegIdx}

LastEnd == IF segments = <<>> THEN 0 ELSE segments[Len(segments)][2]

Reverse(s) == [k \in 1..Len(s) |-> s[Len(s) + 1 - k]]

\* the candidate of cuts in (start, start + max_d] nearest to start + max_d,
\* or the synthetic point start + max_d when there is none
NearestCandidate(cuts, start, max_d) ==
    LET inrange == {c \in Range(cuts) : start < c /\ c <= start + max_d} IN
    IF inrange = {} THEN start + max_d ELSE SetMax(inrange)

(***************************************************************************)
(* C1: no emitted segment is longer than max_duration, the segment         *)
(* appended after the walk included, and a segment ending at a synthetic   *)
(* cut is exactly max_duration long.  Stated for timestamps on the         *)
(* timeline, a sub-case of "every candidate set".                          *)
(***************************************************************************)
C1_NoSegmentOverMax ==
    InTimeline =>
        \A k \in SegIdx :
            /\ SegLen(k) <= max_duration
            /\ (branches[k] = "split" /\ SegEnd(k) \notin Range(all_cuts))
                   => SegLen(k) = max_duration

(***************************************************************************)
(* C2: a segment emitted by the over-long branch ends at the candidate of  *)
(* all_cuts in (current_start, current_start + max_duration] nearest to    *)
(* current_start + max_duration, at the synthetic point only when there is *)
(* no such candidate, and current_start becomes the chosen end.  Stated    *)
(* for timestamps on the timeline.                                         *)
(***************************************************************************)
C2_SplitEndsAtNearestCandidate ==
    InTimeline =>
        /\ \A k \in SegIdx :
               branches[k] = "split" =>
                   SegEnd(k) = NearestCandidate(all_cuts, SegStart(k), max_duration)
        /\ (pc = "walk" /\ segments # <<>>) => current_start = LastEnd

(***************************************************************************)
(* C3 as stated: for arbitrary non-negative candidate timestamps every     *)
(* emitted segment has end > start, start >= 0 and end <= duration.        *)
(***************************************************************************)
C3_SegmentsWithinVideo_Original ==
    \A k \in SegIdx :
        SegEnd(k) > SegStart(k) /\ SegStart(k) >= 0 /\ SegEnd(k) <= duration

(***************************************************************************)
(* C3 amended: when every candidate timestamp lies in [0, duration], every *)
(* emitted segment has end > start, start >= 0 and end <= duration.        *)
(***************************************************************************)
C3_SegmentsWithinVideo ==
    InTimeline =>
        \A k \in SegIdx :
            SegEnd(k) > SegStart(k) /\ SegStart(k) >= 0 /\ SegEnd(k) <= duration

C3_Witness ==
    /\ pc = "done"
    /\ InTimeline
    /\ Len(segments) >= 2
    /\ \E k \in SegIdx : branches[k] = "split"
    /\ branches[Len(segments)] = "tail"

(***************************************************************************)
(* C4: the segments of a result are in ascending time order and do not     *)
(* overlap: an earlier segment ends no later than a later one starts.      *)
(***************************************************************************)
C4_AscendingNoOverlap ==
    \A i \in SegIdx : \A j \in SegIdx : i < j => SegEnd(i) <= SegStart(j)

C4_Witness ==
    /\ pc = "done"
    /\ Len(segments) >= 3
    /\ \E k \in SegIdx : branches[k] = "split"
    /\ \E k \in SegIdx : branches[k] = "cut"

(***************************************************************************)
(* C5: every emitted segment is at least min_duration long, except         *)
(* possibly a segment next to one produced by a max_duration split.        *)
(***************************************************************************)
C5_MinDuration ==
    \A k \in SegIdx :
        \/ SegLen(k) >= min_duration
        \/ (k > 1 /\ branches[k - 1] = "split")
        \/ (k < Len(segments) /\ branches[k + 1] = "split")

C5_Witness ==
    /\ pc = "done"
    /\ InTimeline
    /\ Len(segments) >= 3
    /\ branches[1] = "cut"
    /\ SegLen(1) = min_duration
    /\ branches[2] = "cut"
    /\ \E k \in SegIdx : branches[k] = "split"

(***************************************************************************)
(* C6: planning again with the emitted boundaries as the only candidates   *)
(* (same duration, min_duration, max_duration) reproduces the segments.    *)
(***************************************************************************)
C6_RoundTrip ==
    (pc = "done" /\ InTimeline) =>
        Plan(duration, Sorted(Boundaries), <<>>, min_duration, max_duration) = segments

C8_EmptyPlanIsNotAFault ==
    (pc = "done" /\ segments = <<>> /\ step \in {"finish", "end"}) =>
        /\ "error" \notin DOMAIN result
        /\ TaskId \in DOMAIN tasks => tasks[TaskId].status # "error"

(***************************************************************************)
(* C9: after the walk the stretch (current_start, duration) is appended    *)
(* as the last segment exactly when it is at least min_duration long, so   *)
(* the footage lost after the last emitted segment is shorter than         *)
(* min_duration.                                                           *)
(***************************************************************************)
C9_TrailingRemainder ==
    pc = "done" =>
        LET kept == segments # <<>> /\ branches[Len(segments)] = "tail" IN
        /\ kept <=> (duration - current_start >= min_duration)
        /\ kept => segments[Len(segments)] = <<current_start, duration>>
        /\ duration - LastEnd < min_duration

C9_Witness ==
    /\ pc = "done"
    /\ InTimeline
    /\ segments # <<>>
    /\ branches[Len(segments)] # "tail"
    /\ duration - LastEnd > 0

(***************************************************************************)
(* C10: the result depends only on the set scene_changes \cup              *)
(* silence_pauses \cup {0, duration}: it equals the result for the sorted, *)
(* duplicate-free listing of that set (0 and duration included) given as   *)
(* one list, and is unchanged by reversing a list, repeating its           *)
(* timestamps, or exchanging the two lists.                                *)
(***************************************************************************)
C10_InputIndependence ==
    pc = "done" =>
        /\ segments = Plan(duration, Sorted(CutSet), <<>>, min_duration, max_duration)
        /\ segments = Plan(duration, <<>>, Reverse(Sorted(CutSet)), min_duration, max_duration)
        /\ segments = Plan(duration, Reverse(scene_changes), silence_pauses,
                           min_duration, max_duration)
        /\ segments = Plan(duration, silence_pauses, scene_changes,
                           min_duration, max_duration)
        /\ segments = Plan(duration, scene_changes \o scene_changes,
                           silence_pauses \o silence_pauses, min_duration, max_duration)

C10_Witness ==
    /\ pc = "done"
    /\ Len(scene_changes) = 2
    /\ scene_changes[1] < scene_changes[2]
    /\ silence_pauses = <<scene_changes[1]>>
    /\ scene_changes[1] > 0
    /\ scene_changes[2] < duration
    /\ Len(segments) >= 2

(***************************************************************************)
(* C11: plan(duration=400, scene_times=[100,250], silence_times=[50],      *)
(* min_duration=60, max_duration=180) is exactly                           *)
(* [(0,100),(100,250),(250,400)]: the candidate 50 is absorbed, and the    *)
(* segment ending at the candidate equal to duration is emitted by the     *)
(* loop, with no further segment appended after it.                        *)
(***************************************************************************)
C11_Example ==
    /\ duration = 400
    /\ scene_changes = <<100, 250>>
    /\ silence_pauses = <<50>>
    /\ min_duration = 60
    /\ max_duration = 180

C11_WorkedExample ==
    /\ (pc = "done" /\ C11_Example) =>
           /\ segments = <<(<<0, 100>>), (<<100, 250>>), (<<250, 400>>)>>
           /\ 50 \notin Boundaries
           /\ branches = <<"cut", "cut", "cut">>
    /\ Plan(400, <<100, 250>>, <<50>>, 60, 180)
           = <<(<<0, 100>>), (<<100, 250>>), (<<250, 400>>)>>

C11_Witness ==
    /\ pc = "done"
    /\ C11_Example
    /\ Len(segments) = 3

(***************************************************************************)
(* Vocabulary of the layout claims.                                        *)
(***************************************************************************)
LayoutDone == layout # NoLayout

\* a / b rounded toward zero, b > 0
TruncDiv(a, b) == IF a < 0 THEN -((-a) \div b) ELSE a \div b

\* size is a * b / c without its fraction, or one less than the integer
\* a * b / c
FlooredOrShort(size, a, b, c) ==
    IF (a * b) % c = 0
    THEN size \in {(a * b) \div c, (a * b) \div c - 1}
    ELSE size = (a * b) \div c

\* off is diff / 2 rounded toward minus infinity
FlooredHalf(off, diff) == 2 * off <= diff /\ diff <= 2 * off + 1

(***************************************************************************)
(* C12: for every source size and every scale_factor >= 1.0 the computed   *)
(* background has bg_h = target_height and bg_w >= target_width.           *)
(***************************************************************************)
C12_BackgroundCoversCanvas ==
    LayoutDone =>
        /\ layout.bg_scale_height = target_height
        /\ layout.bg_scale_width >= target_width

(***************************************************************************)
(* C13: for every source size bg_x is non-positive, so the crop offset     *)
(* given to the renderer is |bg_x|.                                        *)
(***************************************************************************)
C13_BgXNonPositive ==
    LayoutDone =>
        /\ layout.bg_x <= 0
        /\ layout.crop_x = Abs(layout.bg_x)

C15_Source ==
    /\ LayoutDone
    /\ original_width = 1920
    /\ original_height = 1080
    /\ mobile_scale_factor = Decimal(12000)

C15_WorkedLayout_Original ==
    C15_Source =>
        layout = [main_scale_width |-> 1296, main_scale_height |-> 729,
                  main_x |-> -108, main_y |-> 595,
                  bg_scale_height |-> 1920, bg_scale_width |-> 3413,
                  bg_x |-> -1166, crop_x |-> 1166]

(***************************************************************************)
(* C15 amended: source 1920x1080 with scale_factor 1.2 gives fg_w=1296,    *)
(* fg_h=729, fg_x=-108, fg_y=595, bg_h=1920, bg_w=3413, bg_x=-1167 and the *)
(* crop offset 1167.                                                       *)
(***************************************************************************)
C15_WorkedLayout ==
    C15_Source =>
        layout = [main_scale_width |-> 1296, main_scale_height |-> 729,
                  main_x |-> -108, main_y |-> 595,
                  bg_scale_height |-> 1920, bg_scale_width |-> 3413,
                  bg_x |-> -1167, crop_x |-> 1167]

C15_Witness ==
    /\ C15_Source
    /\ converted = "True"
    /\ layout.bg_x < 0

(***************************************************************************)
(* Vocabulary of the segment-loop claims.                                  *)
(***************************************************************************)
Attempted == 1..Len(loop.attempts)

FinalPathOf(k) == FinalPath(TaskId, k, segments[k])

\* the segments whose final path is listed in result_files
Listed == {k \in Attempted : FinalPathOf(k) \in Range(loop.result_files)}

\* the conversion of segment k was called and returned False
ConversionFailed(k) == loop.attempts[k] \in {"original", "rename_raised"}

\* the loop was left by an exception, and the run ends with an error result
Aborted ==
    /\ loop.attempts # <<>>
    /\ loop.attempts[Len(loop.attempts)] \in {"extract_raised", "rename_raised"}

(***************************************************************************)
(* C16: for a segment whose extraction succeeded and whose mobile          *)
(* conversion failed, the extracted clip is kept under the segment's final *)
(* name, the segment is listed in result_files and counted in              *)
(* segments_created, and the processing of the video is not aborted.       *)
(***************************************************************************)
C16_RenderFailureFallback ==
    \A k \in Attempted :
        ConversionFailed(k) =>
            /\ [path |-> FinalPathOf(k), content |-> "clip"] \in loop.files
            /\ k \in Listed
            /\ loop.successful_segments = Cardinality(Listed)
            /\ ~Aborted

(***************************************************************************)
(* C17: every planned segment is attempted exactly once, in plan order,    *)
(* whatever happened to earlier segments: when the run has left the loop,  *)
(* there is one attempt per planned segment, and a segment's entry in      *)
(* result_files depends on its own outcome only.                           *)
(***************************************************************************)
C17_SiblingIsolation ==
    (step \in {"finish", "end"} /\ pc = "done" /\ segments # <<>>) =>
        /\ Len(loop.attempts) = Len(segments)
        /\ \A j \in Attempted :
               j \in Listed <=> loop.attempts[j] \in {"mobile", "original"}

(***************************************************************************)
(* C18: when scene detection or silence detection fails, the planner       *)
(* behaves exactly as if that detector had returned an empty list: the     *)
(* candidates are 0, duration and the timestamps of the detector that      *)
(* succeeded, the segments are the plan for those, and the call runs to    *)
(* its end.                                                                *)
(***************************************************************************)
\* what a detector hands over when a failed run counts as the empty list
EmptyIfFailed(run) == IF run.raised THEN <<>> ELSE SortedList(run.times)

C18_DetectorFailureIsEmptyList ==
    /\ pc \in {"walk", "done"} =>
           /\ detector_runs.scene.raised => scene_changes = <<>>
           /\ detector_runs.silence.raised => silence_pauses = <<>>
           /\ Range(all_cuts) = Range(EmptyIfFailed(detector_runs.scene))
                                   \cup Range(EmptyIfFailed(detector_runs.silence))
                                   \cup {0, duration}
    /\ pc = "done" =>
           segments = Plan(duration, EmptyIfFailed(detector_runs.scene),
                           EmptyIfFailed(detector_runs.silence),
                           min_duration, max_duration)

C18_Witness ==
    /\ pc = "done"
    /\ detector_runs.scene.raised
    /\ detector_runs.scene.times # <<>>
    /\ ~detector_runs.silence.raised
    /\ silence_pauses = <<100>>
    /\ duration = 250
    /\ segments = <<(<<0, 100>>), (<<100, 250>>)>>

(***************************************************************************)
(* C20 as stated: every value of the layout (fg_w, fg_h, fg_x, fg_y, bg_w, *)
(* bg_x) is the exact rational value of its formula truncated toward zero, *)
(* the offsets with a negative odd difference included.                    *)
(***************************************************************************)
C20_TruncatedTowardZero_Original ==
    LayoutDone =>
        LET sf == mobile_scale_factor
            w == original_width
            h == original_height
        IN /\ layout.main_scale_width = TruncDiv(target_width * sf.num, sf.den)
           /\ layout.main_scale_height = TruncDiv(h * layout.main_scale_width, w)
           /\ layout.bg_scale_width = TruncDiv(w * target_height, h)
           /\ layout.main_x = TruncDiv(target_width - layout.main_scale_width, 2)
           /\ layout.main_y = TruncDiv(target_height - layout.main_scale_height, 2)
           /\ layout.bg_x = TruncDiv(target_width - layout.bg_scale_width, 2)

(***************************************************************************)
(* C20 amended: the sizes fg_w, fg_h and bg_w are the exact rational value *)
(* of their formula without its fraction, or one less than that value when *)
(* it is an integer (the double-precision product can fall just below it); *)
(* the offsets fg_x, fg_y and bg_x are half the difference rounded toward  *)
(* minus infinity, so a negative odd difference rounds away from zero.     *)
(***************************************************************************)
C20_Rounding ==
    LayoutDone =>
        LET sf == mobile_scale_factor
            w == original_width
            h == original_height
        IN /\ FlooredOrShort(layout.main_scale_width, target_width, sf.num, sf.den)
           /\ FlooredOrShort(layout.main_scale_height, h, layout.main_scale_width, w)
           /\ FlooredOrShort(layout.bg_scale_width, w, target_height, h)
           /\ FlooredHalf(layout.main_x, target_width - layout.main_scale_width)
           /\ FlooredHalf(layout.main_y, target_height - layout.main_scale_height)
           /\ FlooredHalf(layout.bg_x, target_width - layout.bg_scale_width)

\* target_width - fg_w = -217 gives fg_x = -109, and fg_h is one less than
\* the integer 608 * 1297 / 608
C20_Witness ==
    /\ converted = "True"
    /\ target_width - layout.main_scale_width = -217
    /\ layout.main_x = -109
    /\ original_width = 608
    /\ original_height = 608
    /\ layout.main_scale_height = 1296

(***************************************************************************)
(* C21: a candidate cut_point with                                         *)
(* min_duration <= cut_point - current_start <= max_duration, both         *)
(* boundaries included, is emitted as the segment                          *)
(* (current_start, cut_point) without a split, and current_start becomes   *)
(* cut_point.                                                              *)
(***************************************************************************)
C21_InRange ==
    /\ pc = "walk"
    /\ idx <= Len(all_cuts)
    /\ min_duration <= all_cuts[idx] - current_start
    /\ all_cuts[idx] - current_start <= max_duration

C21_InRangeBranchInclusive ==
    [][C21_InRange =>
          /\ walk'.segments = Append(segments, <<current_start, all_cuts[idx]>>)
          /\ walk'.branches = Append(branches, "cut")
          /\ walk'.current_start = all_cuts[idx]]_vars

C21_Witness ==
    /\ pc = "done"
    /\ min_duration + 1 < max_duration
    /\ \E k \in SegIdx : branches[k] = "cut" /\ SegLen(k) = min_duration
    /\ \E k \in SegIdx : branches[k] = "cut" /\ SegLen(k) = max_duration

(***************************************************************************)
(* C22: for every source size the target_width wide crop window at the x   *)
(* offset given to the renderer lies inside the background scaled to       *)
(* bg_w x bg_h (offset >= 0 and offset + target_width <= bg_w) and is      *)
(* horizontally centred to within one pixel.                               *)
(***************************************************************************)
C22_CropFits ==
    LayoutDone =>
        LET left == layout.crop_x
            right == layout.bg_scale_width - target_width - layout.crop_x
        IN /\ left >= 0
           /\ left + target_width <= layout.bg_scale_width
           /\ layout.bg_scale_height = target_height
           /\ Abs(left - right) <= 1

(***************************************************************************)
(* C24: in every non-empty result the first segment starts at 0 and each   *)
(* later segment starts exactly where the previous one ends, so every      *)
(* instant of [0, end of the last segment) lies in one of the segments,    *)
(* also when candidates have been skipped on the way.                      *)
(***************************************************************************)
C24_Contiguous ==
    segments # <<>> =>
        /\ SegStart(1) = 0
        /\ \A k \in 2..Len(segments) : SegStart(k) = SegEnd(k - 1)
        /\ \A t \in 0..(LastEnd - 1) :
              \E k \in SegIdx : SegStart(k) <= t /\ t < SegEnd(k)

C24_Witness ==
    /\ pc = "done"
    /\ Len(segments) >= 3
    /\ \E k \in SegIdx : branches[k] = "split"
    /\ \E k \in SegIdx : branches[k] = "cut"
    /\ \E t \in Range(all_cuts) : t < LastEnd /\ t \notin Boundaries

(***************************************************************************)
(* C25: when every candidate timestamp lies in [0, duration] and           *)
(* duration >= min_duration the planner returns at least one segment;      *)
(* with the too-short case, the result is empty exactly when               *)
(* duration < min_duration.                                                *)
(***************************************************************************)
C25_EmptyOnlyIfTooShort ==
    (pc = "done" /\ InTimeline) =>
        (segments = <<>> <=> duration < min_duration)

C25_Witness ==
    /\ pc = "done"
    /\ InTimeline
    /\ duration = min_duration
    /\ scene_changes # <<>>
    /\ \A t \in Range(scene_changes) \cup Range(silence_pauses) : 0 < t /\ t < duration
    /\ Len(segments) = 1

(***************************************************************************)
(* Vocabulary of the task-record claims.                                   *)
(***************************************************************************)
Recorded == TaskId \in DOMAIN tasks

Terminal(status) == status \in {"completed", "error"}

StatusMoves == {<<"queued", "processing">>, <<"processing", "completed">>,
                <<"processing", "error">>}

(***************************************************************************)
(* C26: a task's status only moves QUEUED -> PROCESSING -> COMPLETED or    *)
(* ERROR (a record is created QUEUED, and no step moves the status back,   *)
(* so each move happens at most once), and once the status is COMPLETED or *)
(* ERROR no later step of the run changes status, progress or              *)
(* result_files.                                                           *)
(***************************************************************************)
C26_StatusLifecycle ==
    [][/\ (~Recorded /\ Recorded') => tasks'[TaskId].status = "queued"
       /\ (Recorded /\ Recorded') =>
             LET old == tasks[TaskId]
                 new == tasks'[TaskId]
             IN /\ \/ new.status = old.status
                   \/ <<old.status, new.status>> \in StatusMoves
                /\ Terminal(old.status) =>
                      /\ new.status = old.status
                      /\ new.progress = old.progress
                      /\ new.result_files = old.result_files]_vars

C26_Witness ==
    /\ step = "end"
    /\ Recorded
    /\ tasks[TaskId].status = "completed"
    /\ Len(tasks[TaskId].result_files) >= 2

(***************************************************************************)
(* C27: every task whose processing has started, and whose record is not   *)
(* removed by cleanup, eventually has status COMPLETED or ERROR, whether   *)
(* the processor returns success, returns a failure or raises.             *)
(***************************************************************************)
C27_TaskCompletes ==
    (Recorded /\ tasks[TaskId].status = "processing")
        ~> (~Recorded \/ Terminal(tasks[TaskId].status))

C27_Witness ==
    /\ step = "end"
    /\ Recorded
    /\ tasks[TaskId].status = "error"
    /\ tasks[TaskId].error_message = "exception"
    /\ Len(loop.attempts) >= 2

(***************************************************************************)
(* C28: in every state of a task record, COMPLETED implies progress = 100  *)
(* and result_files non-empty; ERROR implies progress = 0, error_message   *)
(* set and result_files empty; QUEUED implies progress = 0 and             *)
(* result_files empty; progress is one of 0, 10, 30, 100.                  *)
(***************************************************************************)
C28_RecordConsistent ==
    Recorded =>
        LET t == tasks[TaskId] IN
        /\ t.status = "completed" => (t.progress = 100 /\ t.result_files # <<>>)
        /\ t.status = "error" =>
              (t.progress = 0 /\ t.error_message # "none" /\ t.result_files = <<>>)
        /\ t.status = "queued" => (t.progress = 0 /\ t.result_files = <<>>)
        /\ t.progress \in {0, 10, 30, 100}

C28_Witness ==
    /\ step = "end"
    /\ Recorded
    /\ tasks[TaskId].status = "error"
    /\ tasks[TaskId].error_message = "unexpected"
    /\ pc = "idle"

(***************************************************************************)
(* C29: in the result that MultiShortsAlgorithm.process_video returns for  *)
(* a non-empty plan, segments_created is the number of entries of          *)
(* result_files, 0 <= segments_created <= segments_total = number of       *)
(* planned segments, success is true exactly when segments_created > 0,    *)
(* and a segment is counted and listed exactly when its extraction         *)
(* succeeded and its temporary clip existed, whatever the conversion did.  *)
(***************************************************************************)
C29_ResultAccounting ==
    "segments_total" \in DOMAIN result =>
        LET counted == {k \in Attempted : loop.attempts[k] \in {"mobile", "original"}} IN
        /\ result.segments_created = Len(result.result_files)
        /\ 0 <= result.segments_created
        /\ result.segments_created <= result.segments_total
        /\ result.segments_total = Len(segments)
        /\ result.success <=> result.segments_created > 0
        /\ result.segments_created = Cardinality(counted)
        /\ \A k \in 1..Len(segments) :
              FinalPathOf(k) \in Range(result.result_files) <=> k \in counted

C29_Witness ==
    /\ step = "finish"
    /\ "segments_total" \in DOMAIN result
    /\ result.segments_total >= 3
    /\ result.segments_created = 2
    /\ \E k \in Attempted : loop.attempts[k] = "original"
    /\ \E k \in Attempted : loop.attempts[k] = "mobile"
    /\ \E k \in Attempted : loop.attempts[k] \in {"extract_failed", "temp_missing"}

(***************************************************************************)
(* Vocabulary of the concurrency claims.                                   *)
(***************************************************************************)
\* the segments and the layout of a run that has the VideoProcessor to itself
AloneSegments(r) ==
    Plan(runs[r].video.duration, runs[r].video.scene_changes,
         runs[r].video.silence_pauses,
         runs[r].params.min_duration, runs[r].params.max_duration)

AloneLayout(r) ==
    IF AloneSegments(r) = <<>> THEN NoLayout
    ELSE LayoutPlan(runs[r].video.width, runs[r].video.height,
                    runs[r].params.mobile_scale_factor)

(***************************************************************************)
(* C23: two processing runs executed concurrently through the same         *)
(* VideoProcessor, in any interleaving and with different min_duration,    *)
(* max_duration and scale factor, each produce the segments and the layout *)
(* they would produce alone, and the algorithm object a run works with     *)
(* carries that run's parameters only.                                     *)
(***************************************************************************)
C23_RunsIsolated ==
    \A r \in DOMAIN runs :
        /\ runs[r].at \in {"created", "planned", "returned"} =>
              instances[runs[r].processor] = NewAlgorithm(runs[r].params)
        /\ runs[r].at \in {"planned", "returned"} =>
              runs[r].segments = AloneSegments(r)
        /\ runs[r].at = "returned" => runs[r].layout = AloneLayout(r)

C23_Witness ==
    /\ DOMAIN runs = Runs
    /\ runs[1].at = "returned"
    /\ runs[2].at = "returned"
    /\ runs[1].processor > runs[2].processor
    /\ runs[1].params # runs[2].params
    /\ runs[1].video.duration = runs[2].video.duration
    /\ runs[1].video.scene_changes = runs[2].video.scene_changes
    /\ runs[1].segments # runs[2].segments
    /\ runs[1].layout # NoLayout
    /\ runs[2].layout # NoLayout
    /\ runs[1].layout # runs[2].layout

(***************************************************************************)
(* C30: two uploads accepted by POST /api/v1/process, in any interleaving, *)
(* are stored at distinct input paths, also when both carry the same       *)
(* filename, so whatever a task reads from its input path while it is      *)
(* processing is the video that was uploaded for it.                       *)
(***************************************************************************)
C30_InputIsolation ==
    /\ \A u \in DOMAIN requests : \A v \in DOMAIN requests :
          u # v => requests[u].upload_path # requests[v].upload_path
    /\ \A u \in DOMAIN requests :
          \A k \in 1..Len(requests[u].seen) : requests[u].seen[k] = ContentOf(u)

====
